---- MODULE Spec2Model ----
(***************************************************************************)
(* bats-retry (src/main.go, lines 1-312: the current revision; the two     *)
(* older revisions that follow it in the file are not modelled).           *)
(*                                                                         *)
(* Strings are sequences of tokens.  The tokens the code inspects are      *)
(* tokens of their own: "(" and ")" (escapeTestcase), "\n" (the "&#xA;"    *)
(* pass of updateTestFile), ESC (readJunitFile), "/" (path.Join) and       *)
(* ".xml" (the suffix filter of main).  Every other token is an opaque     *)
(* run of ordinary characters.  The empty string is <<>>.                  *)
(***************************************************************************)
EXTENDS Integers, Sequences, FiniteSets, TLC

\* ------------------------------------------------------------------ bounds
\* reports (files with the .xml suffix) in the directory
MaxFiles == 2
\* cases of one report (RichInit), cases of the whole directory (Init)
MaxCases == 2
\* longest elapsed time of a re-run command, in half seconds
MaxRunTime == 1

\* ----------------------------------------------------------------- strings
ESC == "\\033"
NL  == "\n"

RECURSIVE ReplaceAll(_, _, _)
\* strings.ReplaceAll(s, old, new) for a one-token old
ReplaceAll(s, old, new) ==
  IF s = <<>> THEN <<>>
  ELSE (IF Head(s) = old THEN new ELSE <<Head(s)>>) \o ReplaceAll(Tail(s), old, new)

HasSuffix(s, suffix) == Len(s) > 0 /\ s[Len(s)] = suffix

RECURSIVE Clean(_)
\* path.Clean on paths made of "/" and plain names: runs of slashes collapse
\* and a trailing slash is dropped (the root "/" stays)
Clean(p) ==
  IF Len(p) <= 1 THEN p
  ELSE IF p[1] = "/" /\ p[2] = "/" THEN Clean(Tail(p))
  ELSE IF Len(p) = 2 /\ p[2] = "/" THEN <<p[1]>>
  ELSE <<p[1]>> \o Clean(Tail(p))

\* path.Join(a, b): empty elements are ignored, the rest joined by "/" and cleaned
PathJoin(a, b) ==
  IF a = <<>> /\ b = <<>> THEN <<>>
  ELSE IF a = <<>> THEN Clean(b)
  ELSE IF b = <<>> THEN Clean(a)
  ELSE Clean(a \o <<"/">> \o b)

\* escapeTestcase, had it escaped the opening parenthesis alone
escapeTestcaseOpenOnly(testcase) ==
  ReplaceAll(testcase, "(", <<"\\", "(">>)

escapeTestcase(testcase) ==
  ReplaceAll(ReplaceAll(testcase, "(", <<"\\", "(">>), ")", <<"\\", ")">>)

\* ------------------------------------------------- report documents on disk
(***************************************************************************)
(* A file holds either bytes that readJunitFile cannot open, read or       *)
(* unmarshal (Malformed) or a <testsuite> document, kept as the fields     *)
(* the Testsuite struct decodes: the name attribute, the properties, the   *)
(* test cases and system-out.  An optional element (failure, skipped)      *)
(* records whether it is present in the document, apart from its content.  *)
(***************************************************************************)
Malformed ==
  [wellFormed |-> FALSE, name |-> <<>>, properties |-> <<>>, testcases |-> <<>>,
   systemOut |-> <<>>]

NoFailure == [present |-> FALSE, text |-> <<>>, type |-> <<>>]
NoSkipped == [present |-> FALSE, text |-> <<>>]

NoErr == "nil"

\* the pre-parse pass of readJunitFile: every ESC becomes four spaces
StripEsc(s) == ReplaceAll(s, ESC, <<"    ">>)

\* xml.Unmarshal into Testsuite: an absent element or attribute decodes to ""
Unmarshal(doc) ==
  [Name       |-> StripEsc(doc.name),
   Properties |-> [i \in DOMAIN doc.properties |->
                     [Name  |-> StripEsc(doc.properties[i].name),
                      Value |-> StripEsc(doc.properties[i].value)]],
   Testcase   |-> [i \in DOMAIN doc.testcases |->
                     [Name    |-> StripEsc(doc.testcases[i].name),
                      Time    |-> StripEsc(doc.testcases[i].time),
                      Failure |-> [Text |-> StripEsc(doc.testcases[i].failure.text),
                                   Type |-> StripEsc(doc.testcases[i].failure.type)],
                      Skipped |-> StripEsc(doc.testcases[i].skipped.text)]],
   SystemOut  |-> StripEsc(doc.systemOut)]

EmptyTestsuite ==
  [Name |-> <<>>, Properties |-> <<>>, Testcase |-> <<>>, SystemOut |-> <<>>]

readJunitFile(content) ==
  IF ~content.wellFormed
  THEN [testsuite |-> EmptyTestsuite, err |-> "Failed to read junit file"]
  ELSE [testsuite |-> Unmarshal(content), err |-> NoErr]

\* -------------------------------------------------------- processJunitFile
RECURSIVE BatsCwdPath(_, _, _)
\* the property loop: every BATS_CWD property overwrites testfile
BatsCwdPath(properties, name, testfile) ==
  IF properties = <<>> THEN testfile
  ELSE BatsCwdPath(Tail(properties), name,
                   IF Head(properties).Name = <<"BATS_CWD">>
                   THEN PathJoin(Head(properties).Value, name)
                   ELSE testfile)

\* the test of the case loop
IsSelected(testcase) ==
  testcase.Skipped # <<>> \/ testcase.Failure.Text # <<>>

RECURSIVE SelectNames(_)
SelectNames(testcases) ==
  IF testcases = <<>> THEN <<>>
  ELSE (IF IsSelected(Head(testcases)) THEN <<Head(testcases).Name>> ELSE <<>>)
       \o SelectNames(Tail(testcases))

processJunitFile(content) ==
  LET r        == readJunitFile(content)
      testfile == BatsCwdPath(r.testsuite.Properties, r.testsuite.Name, <<>>)
  IN  IF r.err # NoErr
      THEN [testfile |-> <<>>, testcases |-> <<>>, err |-> "Error reading file"]
      ELSE IF testfile = <<>>
      THEN [testfile |-> <<>>, testcases |-> <<>>,
            err |-> "Unable to generate testfile path"]
      ELSE [testfile |-> testfile, testcases |-> SelectNames(r.testsuite.Testcase),
            err |-> NoErr]

\* ---------------------------------------------------------- updateTestFile
\* math.Round(runTime.Seconds()) for a run time in half seconds: half away from zero
RoundSecondsTruncates(runTime) == runTime \div 2

RoundSeconds(runTime) == (runTime + 1) \div 2

\* fmt.Sprintf("%v", ...) of a rounded float64: the decimal integer, for the
\* elapsed times of the model
FormatSeconds(runTime) == <<ToString(RoundSeconds(runTime))>>

\* ResetCases, had the loop removed the cases of that name from the report
ResetCasesRemoves(testcases, testcase, runTime) ==
  SelectSeq(testcases, LAMBDA t : t.Name # testcase)

\* the loop over testsuite.Testcase: every case of that name is reset
ResetCases(testcases, testcase, runTime) ==
  [i \in DOMAIN testcases |->
     IF testcases[i].Name # testcase THEN testcases[i]
     ELSE [testcases[i] EXCEPT !.Time    = FormatSeconds(runTime),
                               !.Skipped = <<>>,
                               !.Failure = [Text |-> <<>>, Type |-> <<>>]]]

\* the "&#xA;" pass: xml.MarshalIndent writes every newline of a text or an
\* attribute as &#xA;, and all of them are deleted
StripNewlines(s) == ReplaceAll(s, NL, <<>>)

\* xml.MarshalIndent and the three ReplaceAll passes: every field is written,
\* then <failure type=""></failure> and <skipped></skipped> are deleted
Marshal(testsuite) ==
  [wellFormed |-> TRUE,
   name       |-> StripNewlines(testsuite.Name),
   properties |-> [i \in DOMAIN testsuite.Properties |->
                     [name  |-> StripNewlines(testsuite.Properties[i].Name),
                      value |-> StripNewlines(testsuite.Properties[i].Value)]],
   testcases  |-> [i \in DOMAIN testsuite.Testcase |->
                     LET t  == testsuite.Testcase[i]
                         ft == StripNewlines(t.Failure.Text)
                         fy == StripNewlines(t.Failure.Type)
                         sk == StripNewlines(t.Skipped)
                     IN  [name    |-> StripNewlines(t.Name),
                          time    |-> StripNewlines(t.Time),
                          failure |-> [present |-> ~(ft = <<>> /\ fy = <<>>),
                                       text |-> ft, type |-> fy],
                          skipped |-> [present |-> sk # <<>>, text |-> sk]]],
   systemOut  |-> StripNewlines(testsuite.SystemOut)]

\* io: what the file system does with the rewrite ("ok", "create_fail": os.Create
\* fails and the file is untouched, "write_fail": the file was truncated by
\* os.Create and the write fails)
IoOutcomes == {"ok", "create_fail", "write_fail"}

updateTestFile(content, testcase, runTime, io) ==
  LET r == readJunitFile(content)
  IN  IF r.err # NoErr THEN [content |-> content, err |-> r.err]
      ELSE IF io = "create_fail"
      THEN [content |-> content, err |-> "Failed to open junit file for writing"]
      ELSE IF io = "write_fail"
      THEN [content |-> Malformed, err |-> "Failed to write junit file"]
      ELSE [content |-> Marshal([r.testsuite EXCEPT
                          !.Testcase = ResetCases(@, testcase, runTime)]),
            err |-> NoErr]

\* --------------------------------------------------------- writeSliceToFile
NoScript == [exists |-> FALSE, lines |-> <<>>, mode |-> ""]

ScriptOutcomes == {"ok", "open_fail", "flush_fail"}

\* writeSliceToFile, had it left the file with the mode it was created with
writeSliceToFileNoChmod(old, lns, io) ==
  IF io = "open_fail" THEN [script |-> old, err |-> "open failed"]
  ELSE IF io = "flush_fail"
  THEN [script |-> [exists |-> TRUE, lines |-> <<>>, mode |-> "0600"], err |-> "flush failed"]
  ELSE [script |-> [exists |-> TRUE, lines |-> lns, mode |-> "0600"], err |-> NoErr]

\* the script file after writeSliceToFile(filename, lines), and its error.
\* open_fail: os.OpenFile fails; flush_fail: the file was created with mode
\* 0600 and truncated, the buffered lines never reach it
writeSliceToFile(old, lns, io) ==
  IF io = "open_fail" THEN [script |-> old, err |-> "open failed"]
  ELSE IF io = "flush_fail"
  THEN [script |-> [exists |-> TRUE, lines |-> <<>>, mode |-> "0600"], err |-> "flush failed"]
  ELSE [script |-> [exists |-> TRUE, lines |-> lns, mode |-> "0700"], err |-> NoErr]

\* ------------------------------------------------------------------- state
VARIABLES
  args,          \* execute flag, testDirectory, testScript
  files,         \* the directory listing (ioutil.ReadDir order): name, content
  files0,        \* the listing when the run started
  script,        \* the file at testScript
  pc,            \* "main", "process", "execute", "exit"
  validFiles,    \* names with the .xml suffix, in listing order
  idx,           \* the position of the processing loop in validFiles
  lines,         \* the script text
  batsCommands,  \* report file name -> sequence of <<test, testfile>>
  todo,          \* keys the range over batsCommands has not reached
  cur,           \* the key the range is at
  pos,           \* the position in batsCommands[cur]
  result,        \* the errors appended to the multierror
  executed,      \* <<file, position>> of a plan entry -> how its re-runs ended
  applied,       \* <<file, position>> of a plan entry -> what its re-runs returned
  exitCode,      \* -1 while running
  logged,        \* the error and terminal messages, in order
  last           \* the last call of processJunitFile, bats or updateTestFile

vars == <<args, files, files0, script, pc, validFiles, idx, lines, batsCommands,
          todo, cur, pos, result, executed, applied, exitCode, logged, last>>

NoFile == <<>>
Running == -1

NoCall ==
  [op |-> "none", file |-> NoFile, testcase |-> <<>>, args |-> <<>>, runTime |-> 0,
   before |-> Malformed, testfile |-> <<>>, testcases |-> <<>>, err |-> NoErr]

Header == << <<"#!/usr/bin/env bash">>, <<"set -eo pipefail">>, <<>> >>

Content(fs, name) == fs[CHOOSE i \in DOMAIN fs : fs[i].name = name].content

FileIndex(fs, name) == CHOOSE i \in DOMAIN fs : fs[i].name = name

ReportDir == <<"reports">>

\* ------------------------------------------------------------------- main
Exit(code, message) ==
  /\ pc' = "exit"
  /\ exitCode' = code
  /\ logged' = IF message = "" THEN logged ELSE Append(logged, message)

RECURSIVE ValidFilesKeepsAll(_)
ValidFilesKeepsAll(fs) ==
  IF fs = <<>> THEN <<>> ELSE <<Head(fs).name>> \o ValidFilesKeepsAll(Tail(fs))

RECURSIVE ValidFiles(_)
\* the suffix filter over the directory listing
ValidFiles(fs) ==
  IF fs = <<>> THEN <<>>
  ELSE (IF HasSuffix(Head(fs).name, ".xml") THEN <<Head(fs).name>> ELSE <<>>)
       \o ValidFiles(Tail(fs))

ArgsOk ==
  /\ args.testDirectory # <<>>
  /\ ~(args.testScript = <<>> /\ ~args.execute)

NoTestDirectory ==
  /\ pc = "main"
  /\ args.testDirectory = <<>>
  /\ Exit(1, "No test directory specified")
  /\ UNCHANGED <<args, files, files0, script, validFiles, idx, lines, batsCommands,
                 todo, cur, pos, result, executed, applied, last>>

\* NoTestScript, had main asked for the script path in direct mode too
NoTestScriptIgnoresExecute ==
  /\ pc = "main"
  /\ args.testDirectory # <<>>
  /\ args.testScript = <<>>
  /\ Exit(1, "No test script location specified")
  /\ UNCHANGED <<args, files, files0, script, validFiles, idx, lines, batsCommands,
                 todo, cur, pos, result, executed, applied, last>>

NoTestScript ==
  /\ pc = "main"
  /\ args.testDirectory # <<>>
  /\ args.testScript = <<>> /\ ~args.execute
  /\ Exit(1, "No test script location specified")
  /\ UNCHANGED <<args, files, files0, script, validFiles, idx, lines, batsCommands,
                 todo, cur, pos, result, executed, applied, last>>

ReadDirFails ==
  /\ pc = "main"
  /\ ArgsOk
  /\ args.testDirectory # ReportDir
  /\ Exit(1, "Error reading test directory")
  /\ UNCHANGED <<args, files, files0, script, validFiles, idx, lines, batsCommands,
                 todo, cur, pos, result, executed, applied, last>>

NoTestsuites ==
  /\ pc = "main"
  /\ ArgsOk
  /\ args.testDirectory = ReportDir
  /\ ValidFiles(files) = <<>>
  /\ validFiles' = <<>>
  /\ Exit(0, "No testsuites found")
  /\ UNCHANGED <<args, files, files0, script, idx, lines, batsCommands,
                 todo, cur, pos, result, executed, applied, last>>

StartProcessing ==
  /\ pc = "main"
  /\ ArgsOk
  /\ args.testDirectory = ReportDir
  /\ ValidFiles(files) # <<>>
  /\ validFiles' = ValidFiles(files)
  /\ lines' = Header
  /\ batsCommands' = <<>>
  /\ idx' = 1
  /\ pc' = "process"
  /\ UNCHANGED <<args, files, files0, script, todo, cur, pos, result, executed, applied,
                 exitCode, logged, last>>

ScriptLine(test, testfile) ==
  <<"bats --filter '">> \o escapeTestcase(test) \o <<"' ">> \o testfile

ProcessCall(name, content, r) ==
  [NoCall EXCEPT !.op = "processJunitFile", !.file = name, !.before = content,
                 !.testfile = r.testfile, !.testcases = r.testcases, !.err = r.err]

\* ProcessFile, had main paired every case with the source file of the first report
ProcessFileFirstTestfile ==
  /\ pc = "process"
  /\ idx <= Len(validFiles)
  /\ LET name == validFiles[idx]
         r    == processJunitFile(Content(files, name))
         r1   == processJunitFile(Content(files, validFiles[1]))
     IN  /\ r.err = NoErr
         /\ lines' = lines \o [i \in DOMAIN r.testcases |->
                                 ScriptLine(r.testcases[i], r1.testfile)]
         /\ batsCommands' =
              [f \in DOMAIN batsCommands \cup {name} |->
                 IF f = name
                 THEN [i \in DOMAIN r.testcases |-> <<r.testcases[i], r1.testfile>>]
                 ELSE batsCommands[f]]
         /\ last' = ProcessCall(name, Content(files, name), r)
  /\ idx' = idx + 1
  /\ UNCHANGED <<args, files, files0, script, pc, validFiles, todo, cur, pos, result,
                 executed, applied, exitCode, logged>>

\* one turn of the loop over validFiles, processJunitFile returning no error
ProcessFile ==
  /\ pc = "process"
  /\ idx <= Len(validFiles)
  /\ LET name == validFiles[idx]
         r    == processJunitFile(Content(files, name))
     IN  /\ r.err = NoErr
         /\ lines' = lines \o [i \in DOMAIN r.testcases |->
                                 ScriptLine(r.testcases[i], r.testfile)]
         /\ batsCommands' =
              [f \in DOMAIN batsCommands \cup {name} |->
                 IF f = name
                 THEN [i \in DOMAIN r.testcases |-> <<r.testcases[i], r.testfile>>]
                 ELSE batsCommands[f]]
         /\ last' = ProcessCall(name, Content(files, name), r)
  /\ idx' = idx + 1
  /\ UNCHANGED <<args, files, files0, script, pc, validFiles, todo, cur, pos, result,
                 executed, applied, exitCode, logged>>

\* ProcessFileError, had the loop logged the error and gone on to the next file
ProcessFileErrorSkips ==
  /\ pc = "process"
  /\ idx <= Len(validFiles)
  /\ LET name == validFiles[idx]
         r    == processJunitFile(Content(files, name))
     IN  /\ r.err # NoErr
         /\ last' = ProcessCall(name, Content(files, name), r)
  /\ idx' = idx + 1
  /\ logged' = Append(logged, "Error processing file")
  /\ UNCHANGED <<args, files, files0, script, pc, validFiles, lines, batsCommands,
                 todo, cur, pos, result, executed, applied, exitCode>>

\* one turn of the loop over validFiles, processJunitFile returning an error
ProcessFileError ==
  /\ pc = "process"
  /\ idx <= Len(validFiles)
  /\ LET name == validFiles[idx]
         r    == processJunitFile(Content(files, name))
     IN  /\ r.err # NoErr
         /\ last' = ProcessCall(name, Content(files, name), r)
  /\ Exit(1, "Error processing file")
  /\ UNCHANGED <<args, files, files0, script, validFiles, idx, lines, batsCommands,
                 todo, cur, pos, result, executed, applied>>

\* WriteScript, had main written the script whatever the execute flag
WriteScriptInBothModes ==
  /\ pc = "process"
  /\ idx > Len(validFiles)
  /\ \E io \in ScriptOutcomes :
       LET w == writeSliceToFile(script, lines, io)
       IN  /\ script' = w.script
           /\ IF w.err # NoErr THEN Exit(1, "Error writing file") ELSE Exit(0, "")
  /\ UNCHANGED <<args, files, files0, validFiles, idx, lines, batsCommands,
                 todo, cur, pos, result, executed, applied, last>>

WriteScript ==
  /\ pc = "process"
  /\ idx > Len(validFiles)
  /\ ~args.execute
  /\ \E io \in ScriptOutcomes :
       LET w == writeSliceToFile(script, lines, io)
       IN  /\ script' = w.script
           /\ IF w.err # NoErr THEN Exit(1, "Error writing file") ELSE Exit(0, "")
  /\ UNCHANGED <<args, files, files0, validFiles, idx, lines, batsCommands,
                 todo, cur, pos, result, executed, applied, last>>

\* ----------------------------------------------------- executeBatsCommands
PlanEntries(plan) == UNION {{<<f, i>> : i \in DOMAIN plan[f]} : f \in DOMAIN plan}

ExecuteStart ==
  /\ pc = "process"
  /\ idx > Len(validFiles)
  /\ args.execute
  /\ pc' = "execute"
  /\ todo' = DOMAIN batsCommands
  /\ cur' = NoFile
  /\ pos' = 1
  /\ result' = <<>>
  /\ executed' = [e \in PlanEntries(batsCommands) |-> <<>>]
  /\ applied' = [e \in PlanEntries(batsCommands) |-> <<>>]
  /\ UNCHANGED <<args, files, files0, script, validFiles, idx, lines, batsCommands,
                 exitCode, logged, last>>

AtCommand == pc = "execute" /\ cur # NoFile /\ pos <= Len(batsCommands[cur])

\* the range over the map reaches its next key, in any order
NextTestfile ==
  /\ pc = "execute"
  /\ ~AtCommand
  /\ \E f \in todo :
       /\ cur' = f
       /\ todo' = todo \ {f}
  /\ pos' = 1
  /\ UNCHANGED <<args, files, files0, script, pc, validFiles, idx, lines,
                 batsCommands, result, executed, applied, exitCode, logged, last>>

\* what one turn of the loop over commands got back: the error of bats or of
\* updateTestFile, and the duration updateTestFile wrote when it returned nil
Returned(err, runTime) ==
  [err |-> err, time |-> IF err = NoErr THEN FormatSeconds(runTime) ELSE <<>>]

BatsArgs(command) == << <<"--filter">>, escapeTestcase(command[1]), command[2] >>

\* CommandFails, had the loop gone on to updateTestFile after a failed command
CommandFailsRewrites ==
  /\ AtCommand
  /\ LET command == batsCommands[cur][pos]
         u == updateTestFile(Content(files, cur), command[1], 0, "ok")
     IN  /\ last' = [NoCall EXCEPT !.op = "bats", !.file = cur, !.testcase = command[1],
                                   !.args = BatsArgs(command),
                                   !.before = Content(files, cur),
                                   !.err = "exit status 1"]
         /\ files' = [files EXCEPT ![FileIndex(files, cur)].content = u.content]
  /\ result' = Append(result, "exit status 1")
  /\ executed' = [executed EXCEPT ![<<cur, pos>>] = Append(@, "bats failed")]
  /\ applied' = [applied EXCEPT ![<<cur, pos>>] = Append(@, Returned("exit status 1", 0))]
  /\ pos' = pos + 1
  /\ UNCHANGED <<args, files0, script, pc, validFiles, idx, lines,
                 batsCommands, todo, cur, exitCode, logged>>

\* CommandFails, had the loop returned the error of the first failing command
CommandFailsAborts ==
  /\ AtCommand
  /\ LET command == batsCommands[cur][pos]
     IN  last' = [NoCall EXCEPT !.op = "bats", !.file = cur, !.testcase = command[1],
                                !.args = BatsArgs(command),
                                !.before = Content(files, cur),
                                !.err = "exit status 1"]
  /\ result' = Append(result, "exit status 1")
  /\ executed' = [executed EXCEPT ![<<cur, pos>>] = Append(@, "bats failed")]
  /\ applied' = [applied EXCEPT ![<<cur, pos>>] = Append(@, Returned("exit status 1", 0))]
  /\ pos' = Len(batsCommands[cur]) + 1
  /\ todo' = {}
  /\ UNCHANGED <<args, files, files0, script, pc, validFiles, idx, lines,
                 batsCommands, cur, exitCode, logged>>

\* one turn of the loop over commands: bats fails, the error is appended
CommandFails ==
  /\ AtCommand
  /\ LET command == batsCommands[cur][pos]
     IN  last' = [NoCall EXCEPT !.op = "bats", !.file = cur, !.testcase = command[1],
                                !.args = BatsArgs(command),
                                !.before = Content(files, cur),
                                !.err = "exit status 1"]
  /\ result' = Append(result, "exit status 1")
  /\ executed' = [executed EXCEPT ![<<cur, pos>>] = Append(@, "bats failed")]
  /\ applied' = [applied EXCEPT ![<<cur, pos>>] = Append(@, Returned("exit status 1", 0))]
  /\ pos' = pos + 1
  /\ UNCHANGED <<args, files, files0, script, pc, validFiles, idx, lines,
                 batsCommands, todo, cur, exitCode, logged>>

\* CommandSucceeds, had the loop assigned the error of updateTestFile to result
\* in place of appending it
CommandSucceedsOverwritesResult ==
  /\ AtCommand
  /\ \E io \in IoOutcomes, runTime \in 0..MaxRunTime :
       LET command == batsCommands[cur][pos]
           u == updateTestFile(Content(files, cur), command[1], runTime, io)
       IN  /\ files' = [files EXCEPT ![FileIndex(files, cur)].content = u.content]
           /\ result' = IF u.err # NoErr THEN <<u.err>> ELSE <<>>
           /\ last' = [NoCall EXCEPT !.op = "updateTestFile", !.file = cur,
                                     !.testcase = command[1],
                                     !.args = BatsArgs(command),
                                     !.runTime = runTime,
                                     !.before = Content(files, cur),
                                     !.err = u.err]
           /\ executed' = [executed EXCEPT ![<<cur, pos>>] =
                Append(@, IF u.err # NoErr THEN "rewrite failed" ELSE "passed")]
           /\ applied' = [applied EXCEPT ![<<cur, pos>>] = Append(@, Returned(u.err, runTime))]
  /\ pos' = pos + 1
  /\ UNCHANGED <<args, files0, script, pc, validFiles, idx, lines,
                 batsCommands, todo, cur, exitCode, logged>>

\* CommandSucceeds, had the loop returned at the first error of updateTestFile
CommandSucceedsAborts ==
  /\ AtCommand
  /\ \E io \in IoOutcomes, runTime \in 0..MaxRunTime :
       LET command == batsCommands[cur][pos]
           u == updateTestFile(Content(files, cur), command[1], runTime, io)
       IN  /\ files' = [files EXCEPT ![FileIndex(files, cur)].content = u.content]
           /\ result' = IF u.err # NoErr THEN Append(result, u.err) ELSE result
           /\ last' = [NoCall EXCEPT !.op = "updateTestFile", !.file = cur,
                                     !.testcase = command[1],
                                     !.args = BatsArgs(command),
                                     !.runTime = runTime,
                                     !.before = Content(files, cur),
                                     !.err = u.err]
           /\ executed' = [executed EXCEPT ![<<cur, pos>>] =
                Append(@, IF u.err # NoErr THEN "rewrite failed" ELSE "passed")]
           /\ applied' = [applied EXCEPT ![<<cur, pos>>] = Append(@, Returned(u.err, runTime))]
           /\ pos' = IF u.err # NoErr THEN Len(batsCommands[cur]) + 1 ELSE pos + 1
           /\ todo' = IF u.err # NoErr THEN {} ELSE todo
  /\ UNCHANGED <<args, files0, script, pc, validFiles, idx, lines,
                 batsCommands, cur, exitCode, logged>>

\* one turn of the loop over commands: bats succeeds after runTime, then
\* updateTestFile rewrites the report
CommandSucceeds ==
  /\ AtCommand
  /\ \E io \in IoOutcomes, runTime \in 0..MaxRunTime :
       LET command == batsCommands[cur][pos]
           u == updateTestFile(Content(files, cur), command[1], runTime, io)
       IN  /\ files' = [files EXCEPT ![FileIndex(files, cur)].content = u.content]
           /\ result' = IF u.err # NoErr THEN Append(result, u.err) ELSE result
           /\ last' = [NoCall EXCEPT !.op = "updateTestFile", !.file = cur,
                                     !.testcase = command[1],
                                     !.args = BatsArgs(command),
                                     !.runTime = runTime,
                                     !.before = Content(files, cur),
                                     !.err = u.err]
           /\ executed' = [executed EXCEPT ![<<cur, pos>>] =
                Append(@, IF u.err # NoErr THEN "rewrite failed" ELSE "passed")]
           /\ applied' = [applied EXCEPT ![<<cur, pos>>] = Append(@, Returned(u.err, runTime))]
  /\ pos' = pos + 1
  /\ UNCHANGED <<args, files0, script, pc, validFiles, idx, lines,
                 batsCommands, todo, cur, exitCode, logged>>

\* ExecuteDone, had main ignored the error executeBatsCommands returns
ExecuteDoneExitsZero ==
  /\ pc = "execute"
  /\ ~AtCommand
  /\ todo = {}
  /\ Exit(0, "")
  /\ UNCHANGED <<args, files, files0, script, validFiles, idx, lines, batsCommands,
                 todo, cur, pos, result, executed, applied, last>>

\* executeBatsCommands returns and main exits on its result
ExecuteDone ==
  /\ pc = "execute"
  /\ ~AtCommand
  /\ todo = {}
  /\ IF result # <<>> THEN Exit(1, "Error executing bats commands") ELSE Exit(0, "")
  /\ UNCHANGED <<args, files, files0, script, validFiles, idx, lines, batsCommands,
                 todo, cur, pos, result, executed, applied, last>>

Next ==
  \/ NoTestDirectory
  \/ NoTestScript
  \/ ReadDirFails
  \/ NoTestsuites
  \/ StartProcessing
  \/ ProcessFile
  \/ ProcessFileError
  \/ WriteScript
  \/ ExecuteStart
  \/ NextTestfile
  \/ CommandFails
  \/ CommandSucceeds
  \/ ExecuteDone

\* ------------------------------------------------------------ initial states
SeqsOfLen(S, n) == [1..n -> S]

Failed       == [present |-> TRUE, text |-> <<"l1", NL, "l2">>, type |-> <<"failure">>]
FailedNoText == [present |-> TRUE, text |-> <<>>, type |-> <<"failure">>]
Skip         == [present |-> TRUE, text |-> <<"reason">>]
SkipNoText   == [present |-> TRUE, text |-> <<>>]

\* the failure and skipped elements of a case
RichMarkers ==
  {[failure |-> NoFailure,    skipped |-> NoSkipped],
   [failure |-> Failed,       skipped |-> NoSkipped],
   [failure |-> FailedNoText, skipped |-> NoSkipped],
   [failure |-> NoFailure,    skipped |-> Skip],
   [failure |-> NoFailure,    skipped |-> SkipNoText],
   [failure |-> Failed,       skipped |-> Skip]}

LeanMarkers ==
  {[failure |-> NoFailure, skipped |-> NoSkipped],
   [failure |-> Failed,    skipped |-> NoSkipped],
   [failure |-> NoFailure, skipped |-> SkipNoText]}

OldTime == <<"0.25">>

\* the name of case j of a report: distinct names, the first with parentheses,
\* or (dup) one name for every case; a name is one line, as a bats test name is
RichName(j, dup) ==
  IF dup THEN <<"a">> ELSE IF j = 1 THEN <<"f", "(", "x", ")">> ELSE <<"t", ToString(j)>>

RichCases ==
  UNION {{[j \in 1..c |->
             [name |-> RichName(j, dup), time |-> OldTime,
              failure |-> ms[j].failure, skipped |-> ms[j].skipped]] :
            ms \in SeqsOfLen(RichMarkers, c), dup \in BOOLEAN} :
         c \in 0..MaxCases}

BatsCwd(value) == [name |-> <<"BATS_CWD">>, value |-> value]

\* the properties and the system-out of a report
RichEnvelopes ==
  {[properties |-> <<>>, systemOut |-> <<>>],
   [properties |-> <<BatsCwd(<<>>)>>, systemOut |-> <<>>],
   [properties |-> <<BatsCwd(<<"/", "src">>)>>, systemOut |-> <<"o1", NL, ESC, "o2">>],
   [properties |-> <<[name |-> <<"BATS_ROOT">>, value |-> <<"/", "opt">>],
                     BatsCwd(<<"/", "src", "/">>)>>,
    systemOut |-> <<>>]}

SourceName(i) == <<"s", ToString(i), ".bats">>
ReportName(i) == <<"r", ToString(i), ".xml">>

RichDocs ==
  {Malformed} \cup
  {[wellFormed |-> TRUE, name |-> SourceName(1), properties |-> e.properties,
    testcases |-> cs, systemOut |-> e.systemOut] :
     e \in RichEnvelopes, cs \in RichCases}

\* files of the directory that are no reports, before and after the reports
\* in the order of ioutil.ReadDir
Backup == [name |-> <<"r", ".xml", ".bak">>, content |-> Malformed]
Readme == [name |-> <<"readme", ".md">>, content |-> Malformed]

WithOthers(listing) ==
  IF listing = <<>> THEN {<<>>, <<Backup, Readme>>}
  ELSE {<<Backup>> \o listing \o <<Readme>>}

RichListings ==
  UNION {WithOthers(l) :
           l \in {<<>>} \cup {<<[name |-> ReportName(1), content |-> d]>> : d \in RichDocs}}

LeanCase(j, m) ==
  [name |-> <<"t", ToString(j)>>, time |-> OldTime,
   failure |-> m.failure, skipped |-> m.skipped]

\* the documents of report i with c cases
LeanDocs(i, c) ==
  (IF c = 0
   THEN {Malformed,
         [wellFormed |-> TRUE, name |-> SourceName(i), properties |-> <<>>,
          testcases |-> <<>>, systemOut |-> <<>>]}
   ELSE {}) \cup
  {[wellFormed |-> TRUE, name |-> SourceName(i),
    properties |-> <<BatsCwd(<<"/", "src">>)>>,
    testcases |-> [j \in 1..c |-> LeanCase(j, ms[j])], systemOut |-> <<>>] :
     ms \in SeqsOfLen(LeanMarkers, c)}

RECURSIVE LeanListingsOf(_, _)
\* the listings of n reports that hold at most budget cases together
LeanListingsOf(n, budget) ==
  IF n = 0 THEN {<<>>}
  ELSE UNION {UNION {{Append(l, [name |-> ReportName(n), content |-> d]) :
                        d \in LeanDocs(n, c)} :
                     l \in LeanListingsOf(n - 1, budget - c)} :
              c \in 0..budget}

LeanListings ==
  UNION {WithOthers(l) : l \in UNION {LeanListingsOf(n, MaxCases) : n \in 0..MaxFiles}}

ArgSets ==
  [execute : BOOLEAN,
   testDirectory : {<<>>, ReportDir, <<"missing">>},
   testScript : {<<>>, <<"script">>}]

InitWith(listings) ==
  /\ args \in ArgSets
  /\ files \in listings
  /\ files0 = files
  /\ script = NoScript
  /\ pc = "main"
  /\ validFiles = <<>>
  /\ idx = 1
  /\ lines = <<>>
  /\ batsCommands = <<>>
  /\ todo = {}
  /\ cur = NoFile
  /\ pos = 1
  /\ result = <<>>
  /\ executed = <<>>
  /\ applied = <<>>
  /\ exitCode = Running
  /\ logged = <<>>
  /\ last = NoCall

\* a directory of up to MaxFiles reports
Init == InitWith(LeanListings)

\* a directory of one report, its content drawn from every shape of document
RichInit == InitWith(RichListings)

Spec == Init /\ [][Next]_vars

RichSpec == RichInit /\ [][Next]_vars

\* ------------------------------------------------------------------ claims
\* what the claims say of a document, read off the document itself
HasMarker(c) == c.failure.present \/ c.skipped.present

RECURSIVE NonPassingNames(_)
NonPassingNames(cases) ==
  IF cases = <<>> THEN <<>>
  ELSE (IF HasMarker(Head(cases)) THEN <<Head(cases).name>> ELSE <<>>)
       \o NonPassingNames(Tail(cases))

Selected == last.op = "processJunitFile" /\ last.err = NoErr

\* C1: processJunitFile returns the names of exactly the cases that carry a
\* failure or a skipped marker, once each, in document order (none for a report
\* of no cases).
C1_SelectsNonPassingInOrder ==
  Selected => last.testcases = NonPassingNames(last.before.testcases)

\* C2: a case is selected for the presence of its marker alone: a failure
\* element selects it whatever its message and type, a skipped element whatever
\* its value, an empty one included.
C2_PresenceAloneSelects ==
  Selected =>
    \A i \in DOMAIN last.before.testcases :
      LET c == last.before.testcases[i]
      IN  /\ c.failure.present => \E k \in DOMAIN last.testcases :
                                    last.testcases[k] = c.name
          /\ c.skipped.present => \E k \in DOMAIN last.testcases :
                                    last.testcases[k] = c.name

\* the run got past the arguments and read the directory
ReadTheDirectory == ArgsOk /\ args.testDirectory = ReportDir

IsReport(entry) == Len(entry.name) > 0 /\ entry.name[Len(entry.name)] = ".xml"

BrokenAt(i) == IsReport(files0[i]) /\ processJunitFile(files0[i].content).err # NoErr

NoCommandRun == \A e \in DOMAIN executed : executed[e] = <<>>

\* C3: when a report of the directory fails to decode or to resolve its source
\* file, a run that read the directory exits 1 with "Error processing file", and
\* at no time writes the script, runs a command or rewrites a report, in either
\* mode and wherever the report stands in the listing.
C3_BrokenReportAbortsRun ==
  (ReadTheDirectory /\ \E i \in DOMAIN files0 : BrokenAt(i)) =>
    /\ script = NoScript
    /\ files = files0
    /\ pc # "execute"
    /\ NoCommandRun
    /\ pc = "exit" => exitCode = 1 /\ logged = <<"Error processing file">>

\* a direct-mode run whose second report is broken, after its first report
\* had a case to re-run
C3_Witness ==
  /\ pc = "exit"
  /\ args.execute
  /\ Len(files0) = 4
  /\ ~BrokenAt(2) /\ BrokenAt(3)
  /\ Len(lines) = 4
  /\ exitCode = 1

\* the BATS_CWD property of a document is present with a non-empty value
HasBaseDir(doc) ==
  \E i \in DOMAIN doc.properties :
    doc.properties[i].name = <<"BATS_CWD">> /\ doc.properties[i].value # <<>>

BaseDir(doc) ==
  doc.properties[CHOOSE i \in DOMAIN doc.properties :
                   doc.properties[i].name = <<"BATS_CWD">>].value

\* C4: a report whose BATS_CWD property is missing or empty makes
\* processJunitFile fail with "Unable to generate testfile path"; with the
\* property present and non-empty, testfile is join(value, report name).
C4_MissingOrEmptyBaseDirFails ==
  (last.op = "processJunitFile" /\ last.before.wellFormed) =>
    IF HasBaseDir(last.before)
    THEN /\ last.err = NoErr
         /\ last.testfile = PathJoin(BaseDir(last.before), last.before.name)
    ELSE last.err = "Unable to generate testfile path"

\* every report was processed without error: the plan is complete
PlanComplete == pc \in {"execute", "exit"} /\ validFiles # <<>> /\ idx > Len(validFiles)

\* the steps executeBatsCommands still has to take: the keys to range over,
\* the entries not yet run, and its return
Remaining ==
  IF pc # "execute" THEN 0
  ELSE Cardinality(todo) + Cardinality({e \in DOMAIN executed : executed[e] = <<>>}) + 1

\* C5: in direct mode every (case, source file) entry of the plan has its command
\* run exactly once, whatever failed before it, and the run then exits: no entry
\* is ever run twice, the executor can always take a step, each of its steps
\* leaves fewer steps to take, and when the run has exited every entry was run.
C5_EveryEntryRunOnce ==
  /\ [](\A e \in DOMAIN executed : Len(executed[e]) <= 1)
  /\ [](pc = "execute" => ENABLED Next)
  /\ [][pc = "execute" => Remaining' < Remaining]_vars
  /\ []((args.execute /\ PlanComplete /\ pc = "exit") =>
          \A e \in PlanEntries(batsCommands) :
            e \in DOMAIN executed /\ Len(executed[e]) = 1)

\* a direct-mode run over two reports has ended; a command of the first report
\* failed, a rewrite failed, and every entry was run
C5_Witness ==
  /\ pc = "exit"
  /\ args.execute
  /\ Cardinality(PlanEntries(batsCommands)) >= 2
  /\ \E f \in DOMAIN batsCommands, g \in DOMAIN batsCommands :
       /\ f # g
       /\ batsCommands[f] # <<>> /\ batsCommands[g] # <<>>
       /\ executed[<<f, 1>>] = <<"bats failed">>
       /\ executed[<<g, 1>>] = <<"rewrite failed">>
  /\ \A e \in PlanEntries(batsCommands) : Len(executed[e]) = 1

FailedSteps ==
  {e \in DOMAIN executed : \E k \in DOMAIN executed[e] : executed[e][k] # "passed"}

\* C6: in direct mode the aggregated error holds one entry for each case step
\* whose command or rewrite failed (so it is nil iff none failed), and the run
\* exits 1 iff it holds an entry, 0 otherwise.
C6_AggregateDecidesExit ==
  (args.execute /\ PlanComplete) =>
    /\ Len(result) = Cardinality(FailedSteps)
    /\ pc = "exit" => exitCode = (IF FailedSteps = {} THEN 0 ELSE 1)

\* a direct-mode run has ended with one step passed and one failed
C6_Witness ==
  /\ args.execute /\ PlanComplete /\ pc = "exit"
  /\ Cardinality(FailedSteps) = 1
  /\ Cardinality(DOMAIN executed) = 2
  /\ exitCode = 1

Updated == last.op = "updateTestFile" /\ last.err = NoErr

\* the whole seconds nearest to a run time of h half seconds, a half going up
NearestSecond(h) == CHOOSE n \in 0..h : 2 * n - 1 <= h /\ h < 2 * n + 1

\* C7: after updateTestFile returned without error for a case whose command
\* succeeded, the report on disk and its decoding show the case of that name
\* with no failure and no skipped marker, and with a duration that is the
\* elapsed time in whole seconds, rounded half away from zero.
C7_ReconciledCasePasses ==
  Updated =>
    LET doc == Content(files, last.file)
        ts  == readJunitFile(doc)
    IN  /\ ts.err = NoErr
        /\ \E i \in DOMAIN doc.testcases : doc.testcases[i].name = last.testcase
        /\ \A i \in DOMAIN doc.testcases :
             doc.testcases[i].name = last.testcase =>
               /\ ~doc.testcases[i].failure.present
               /\ ~doc.testcases[i].skipped.present
               /\ ts.testsuite.Testcase[i].Failure = [Text |-> <<>>, Type |-> <<>>]
               /\ ts.testsuite.Testcase[i].Skipped = <<>>
               /\ ts.testsuite.Testcase[i].Time =
                    <<ToString(NearestSecond(last.runTime))>>

\* a case that carried both markers was re-run in half a second and rewritten
C7_Witness ==
  /\ Updated
  /\ last.runTime = 1
  /\ \E i \in DOMAIN last.before.testcases :
       /\ last.before.testcases[i].name = last.testcase
       /\ last.before.testcases[i].failure.present
       /\ last.before.testcases[i].skipped.present

\* C8: a successful rewrite for one case leaves every other case of the report
\* (name, markers, failure message and type, duration) and the report's name,
\* properties and system output with the content they decoded to before.
C8_RewriteKeepsTheRest ==
  Updated =>
    LET b == Unmarshal(last.before)
        a == Unmarshal(Content(files, last.file))
    IN  /\ a.Name = b.Name
        /\ a.Properties = b.Properties
        /\ a.SystemOut = b.SystemOut
        /\ DOMAIN a.Testcase = DOMAIN b.Testcase
        /\ \A i \in DOMAIN b.Testcase :
             b.Testcase[i].Name # last.testcase => a.Testcase[i] = b.Testcase[i]

\* C9: when no file of the directory has the .xml suffix, a run that read the
\* directory exits 0 with "No testsuites found" and has written no script, run
\* no command and read no file as a report.
C9_NoReportsIsSuccess ==
  (ReadTheDirectory /\ \A i \in DOMAIN files0 : ~IsReport(files0[i])) =>
    /\ script = NoScript
    /\ files = files0
    /\ DOMAIN executed = {}
    /\ last = NoCall
    /\ pc \in {"main", "exit"}
    /\ pc = "exit" => exitCode = 0 /\ logged = <<"No testsuites found">>

\* the run over a directory holding only files that are no reports has ended
C9_Witness ==
  /\ pc = "exit"
  /\ ReadTheDirectory
  /\ files0 = <<Backup, Readme>>
  /\ exitCode = 0

RECURSIVE ExpectedLines(_)
\* one line for each case with a marker, report by report in listing order
ExpectedLines(listing) ==
  IF listing = <<>> THEN <<>>
  ELSE (IF IsReport(Head(listing))
        THEN LET doc   == Head(listing).content
                 names == NonPassingNames(doc.testcases)
             IN  [k \in DOMAIN names |->
                    ScriptLine(names[k], PathJoin(BaseDir(doc), doc.name))]
        ELSE <<>>)
       \o ExpectedLines(Tail(listing))

\* C10: the script written in script mode is the three header lines followed by
\* one command line for each non-passing case of every report, in listing order
\* and then case order: 3 + (number of non-passing cases) lines.
C10_ScriptListsNonPassing ==
  (~args.execute /\ pc = "exit" /\ script.exists /\ exitCode = 0) =>
    /\ script.lines = Header \o ExpectedLines(files0)
    /\ Len(script.lines) = 3 + Len(ExpectedLines(files0))

\* the directory holds a report, and every report decodes and resolves
AllReportsOk ==
  /\ ReadTheDirectory
  /\ \E i \in DOMAIN files0 : IsReport(files0[i])
  /\ \A i \in DOMAIN files0 : ~BrokenAt(i)

NoCaseNonPassing ==
  \A i \in DOMAIN files0 :
    IsReport(files0[i]) =>
      \A j \in DOMAIN files0[i].content.testcases :
        ~HasMarker(files0[i].content.testcases[j])

Executable(s) == s.exists /\ s.mode = "0700"

RECURSIVE Escaped(_)
\* the name read once from left to right, a backslash put before each
\* parenthesis and every other character copied
Escaped(name) ==
  IF name = <<>> THEN <<>>
  ELSE (IF Head(name) \in {"(", ")"} THEN <<"\\", Head(name)>> ELSE <<Head(name)>>)
       \o Escaped(Tail(name))

FilterLine(name, testfile) ==
  <<"bats --filter '">> \o Escaped(name) \o <<"' ">> \o testfile

\* C12: the filter argument of a case is its name with "\(" for every "(" and
\* "\)" for every ")" and every other character unchanged; the script line of a
\* plan entry and the argument list of the command run for it in direct mode
\* both carry that argument.
C12_ParenthesesEscaped ==
  /\ \A f \in DOMAIN batsCommands :
       \A k \in DOMAIN batsCommands[f] :
         \E n \in DOMAIN lines :
           n > 3 /\ lines[n] = FilterLine(batsCommands[f][k][1], batsCommands[f][k][2])
  /\ \A n \in DOMAIN lines :
       n > 3 => \E f \in DOMAIN batsCommands :
                  \E k \in DOMAIN batsCommands[f] :
                    lines[n] = FilterLine(batsCommands[f][k][1], batsCommands[f][k][2])
  /\ (script.exists /\ script.mode = "0700") => script.lines = lines
  /\ last.op \in {"bats", "updateTestFile"} =>
       /\ \E k \in DOMAIN batsCommands[last.file] :
            batsCommands[last.file][k][1] = last.testcase
       /\ last.args = << <<"--filter">>, Escaped(last.testcase),
                         batsCommands[last.file][1][2] >>

\* the command of a case named f(x) was run in direct mode with the filter
\* f\(x\), and the script line built for it reads the same
C12_Witness ==
  /\ last.op = "bats"
  /\ last.testcase = <<"f", "(", "x", ")">>
  /\ last.args[2] = <<"f", "\\", "(", "x", "\\", ")">>
  /\ lines[4] = <<"bats --filter '", "f", "\\", "(", "x", "\\", ")", "' ", "/", "src", "/",
                  "s", "1", ".bats">>

\* the message of the startup check the arguments fail, "" when they pass all
StartupFailure ==
  IF args.testDirectory = <<>> THEN "No test directory specified"
  ELSE IF args.testScript = <<>> /\ ~args.execute THEN "No test script location specified"
  ELSE IF args.testDirectory # ReportDir THEN "Error reading test directory"
  ELSE ""

\* C13: a run whose arguments fail a startup check (no directory argument, no
\* script path without the direct-execution flag, a directory that cannot be
\* read) exits 1 with the message of that check, having read no report, written
\* no script and run no command; without a script path but with the flag set,
\* the run passes the checks and never reports the missing script path.
C13_StartupFailuresExitFirst ==
  /\ StartupFailure # "" =>
       /\ pc \in {"main", "exit"}
       /\ last = NoCall
       /\ script = NoScript
       /\ files = files0
       /\ DOMAIN executed = {}
       /\ pc = "exit" => exitCode = 1 /\ logged = <<StartupFailure>>
  /\ (args.execute /\ args.testScript = <<>> /\ args.testDirectory = ReportDir) =>
       /\ StartupFailure = ""
       /\ \A k \in DOMAIN logged : logged[k] # "No test script location specified"
       /\ pc = "main" => ENABLED (NoTestsuites \/ StartProcessing)

\* a script-mode run without a script path has exited, over a directory that
\* holds a report with a non-passing case
C13_Witness ==
  /\ pc = "exit"
  /\ ~args.execute /\ args.testScript = <<>> /\ args.testDirectory = ReportDir
  /\ exitCode = 1
  /\ \E i \in DOMAIN files0 :
       /\ IsReport(files0[i])
       /\ \E j \in DOMAIN files0[i].content.testcases :
            HasMarker(files0[i].content.testcases[j])

\* the first case of that name, in document order
FirstMatch(testcases, name) ==
  CHOOSE i \in DOMAIN testcases :
    /\ testcases[i].Name = name
    /\ \A j \in 1..(i - 1) : testcases[j].Name # name

\* C14: a successful rewrite for a name resets the first case of that name in
\* document order and leaves every later case of the same name with the
\* duration and the marker values it decoded to before (newlines apart, which
\* the rewrite removes from every text).
C14_FirstMatchWins ==
  Updated =>
    LET b == Unmarshal(last.before).Testcase
        a == Unmarshal(Content(files, last.file)).Testcase
        first == FirstMatch(b, last.testcase)
    IN  /\ a[first].Skipped = <<>>
        /\ a[first].Failure = [Text |-> <<>>, Type |-> <<>>]
        /\ \A i \in DOMAIN b :
             (b[i].Name = last.testcase /\ i # first) =>
               /\ a[i].Time = b[i].Time
               /\ a[i].Skipped = StripNewlines(b[i].Skipped)
               /\ a[i].Failure.Text = StripNewlines(b[i].Failure.Text)
               /\ a[i].Failure.Type = StripNewlines(b[i].Failure.Type)

\* the names of report f for which a command succeeded and the rewrite went through
PassedNames(f) ==
  {batsCommands[f][k][1] : k \in {j \in DOMAIN batsCommands[f] :
                                    /\ <<f, j>> \in DOMAIN executed
                                    /\ executed[<<f, j>>] = <<"passed">>}}

\* the names of report f whose command was run and succeeded, rewritten or not
SucceededNames(f) ==
  {batsCommands[f][k][1] : k \in {j \in DOMAIN batsCommands[f] :
                                    /\ <<f, j>> \in DOMAIN executed
                                    /\ executed[<<f, j>>] \in {<<"passed">>, <<"rewrite failed">>}}}

\* what a case shows of its outcome once decoded: non-passing or not, and its duration
Outcome(testcase) == <<IsSelected(testcase), testcase.Time>>

RewriteFailures ==
  {e \in DOMAIN executed : \E k \in DOMAIN executed[e] : executed[e][k] = "rewrite failed"}

\* C16: when updateTestFile fails after a command succeeded (the report cannot
\* be decoded again, created or written), the step adds its error to the
\* aggregate and the executor goes on to the next entry; a run in which a
\* rewrite failed still runs every entry of every report once, and exits 1.
C16_RewriteFailureIsRecorded ==
  /\ [][\A e \in DOMAIN executed :
          (e \in DOMAIN executed' /\ executed'[e] = Append(executed[e], "rewrite failed")) =>
            /\ Len(result') = Len(result) + 1
            /\ result'[Len(result')] = last'.err
            /\ last'.op = "updateTestFile" /\ last'.err # NoErr
            /\ pc' = "execute"
            /\ todo' = todo /\ cur' = cur /\ pos' = e[2] + 1]_vars
  /\ [](Cardinality(RewriteFailures) <= Len(result))
  /\ []((pc = "exit" /\ RewriteFailures # {}) =>
          /\ exitCode = 1
          /\ logged = <<"Error executing bats commands">>
          /\ \A e \in PlanEntries(batsCommands) : Len(executed[e]) = 1)

\* the run has ended: the rewrite after the first command of a report failed,
\* and the second command of that report was run and its case rewritten
C16_Witness ==
  /\ pc = "exit"
  /\ args.execute /\ PlanComplete
  /\ \E f \in DOMAIN batsCommands :
       /\ Len(batsCommands[f]) = 2
       /\ executed[<<f, 1>>] = <<"rewrite failed">>
       /\ executed[<<f, 2>>] = <<"passed">>
  /\ Len(result) = 1
  /\ exitCode = 1

\* the names of the cases a document decodes to, in order
CaseNames(content) ==
  LET t == Unmarshal(content).Testcase IN [i \in DOMAIN t |-> t[i].Name]

\* C17: whatever commands succeeded and whatever rewrites went through, a
\* report that is still a document decodes to as many cases as at the start,
\* with the same names in the same order.
C17_CasesKeepNamesAndOrder ==
  \A i \in DOMAIN files :
    /\ files[i].name = files0[i].name
    /\ (IsReport(files[i]) /\ files[i].content.wellFormed) =>
         /\ files0[i].content.wellFormed
         /\ Len(files[i].content.testcases) = Len(files0[i].content.testcases)
         /\ CaseNames(files[i].content) = CaseNames(files0[i].content)

\* the run has ended after both cases of a report, f(x) and t2, were re-run and
\* rewritten
C17_Witness ==
  /\ pc = "exit"
  /\ args.execute /\ PlanComplete
  /\ \E f \in DOMAIN batsCommands :
       /\ Len(batsCommands[f]) = 2
       /\ executed[<<f, 1>>] = <<"passed">>
       /\ executed[<<f, 2>>] = <<"passed">>
       /\ CaseNames(Content(files, f)) = << <<"f", "(", "x", ")">>, <<"t", "2">> >>
       /\ Content(files, f) # Content(files0, f)

\* C18: in the document a successful rewrite leaves, a case of the re-run name
\* and a case that had no marker carry no failure and no skipped element, as a
\* case that passed from the start; every other case that had a failure element
\* still has one, and every other case that had a skipped element still has one.
C18_OnlyNonPassingKeepMarkers ==
  Updated =>
    LET b == last.before.testcases
        a == Content(files, last.file).testcases
    IN  /\ DOMAIN a = DOMAIN b
        /\ \A i \in DOMAIN b :
             IF b[i].name = last.testcase \/ ~HasMarker(b[i])
             THEN a[i].failure = NoFailure /\ a[i].skipped = NoSkipped
             ELSE /\ a[i].failure.present = b[i].failure.present
                  /\ a[i].skipped.present = b[i].skipped.present

\* the source file a report resolves to, and the pairs of its selected cases with it
OwnSource(doc) == PathJoin(BaseDir(doc), doc.name)

OwnPairs(doc) ==
  LET names == processJunitFile(doc).testcases
  IN  [k \in DOMAIN names |-> <<names[k], OwnSource(doc)>>]

RECURSIVE OwnLines(_, _)
\* the command lines of the first n reports of the listing, each case with the
\* source file of its own report
OwnLines(listing, n) ==
  IF listing = <<>> \/ n = 0 THEN <<>>
  ELSE IF ~IsReport(Head(listing)) THEN OwnLines(Tail(listing), n)
  ELSE LET pairs == OwnPairs(Head(listing).content)
       IN  [k \in DOMAIN pairs |-> ScriptLine(pairs[k][1], pairs[k][2])]
           \o OwnLines(Tail(listing), n - 1)

\* C19: the plan has one entry for each report processed, holding that report's
\* selected cases in order, each paired with the source file resolved from that
\* same report; the script text pairs them the same way, report by report; and
\* the command run for an entry is given the source file of the entry's report.
C19_CasesKeepTheirSourceFile ==
  validFiles # <<>> =>
    /\ DOMAIN batsCommands = {validFiles[i] : i \in 1..(idx - 1)}
    /\ \A f \in DOMAIN batsCommands : batsCommands[f] = OwnPairs(Content(files0, f))
    /\ lines = Header \o OwnLines(files0, idx - 1)
    /\ last.op \in {"bats", "updateTestFile"} =>
         last.args[3] = OwnSource(Content(files0, last.file))

\* a direct-mode run over two reports that both have a non-passing case t1: the
\* command for the second report's case was run on the second source file
C19_Witness ==
  /\ pc = "execute"
  /\ Len(validFiles) = 2
  /\ \A f \in DOMAIN batsCommands :
       Len(batsCommands[f]) = 1 /\ batsCommands[f][1][1] = <<"t", "1">>
  /\ last.op = "bats"
  /\ last.file = ReportName(2)
  /\ last.args[3] = <<"/", "src", "/">> \o SourceName(2)
  /\ lines[4] # lines[5]

\* C20: a script-mode run never runs a command and never changes a file of the
\* directory; a direct-mode run never creates or writes the script file, with
\* or without a script path among its arguments.
C20_ModesAreExclusive ==
  /\ ~args.execute =>
       /\ files = files0
       /\ pc # "execute"
       /\ DOMAIN executed = {}
       /\ last.op \notin {"bats", "updateTestFile"}
  /\ args.execute =>
       /\ script = NoScript
       /\ \A k \in DOMAIN logged : logged[k] # "Error writing file"

\* a direct-mode run that was given a script path has ended after it re-ran a
\* case and rewrote its report; there is no script
C20_Witness ==
  /\ pc = "exit"
  /\ args.execute /\ PlanComplete
  /\ args.testScript = <<"script">>
  /\ \E e \in DOMAIN executed : executed[e] = <<"passed">>
  /\ files # files0
  /\ script = NoScript

RECURSIVE NotPassed(_, _)
\* the names of the entries k..Len of report f whose command or rewrite failed, in order
NotPassed(f, k) ==
  IF k > Len(batsCommands[f]) THEN <<>>
  ELSE (IF executed[<<f, k>>] = <<"passed">> THEN <<>> ELSE <<batsCommands[f][k][1]>>)
       \o NotPassed(f, k + 1)

DirectRunDone == args.execute /\ PlanComplete /\ pc = "exit"

\* C21: after a direct-mode run, processJunitFile over each report as the run
\* left it returns without error the names of exactly the entries of that
\* report whose command or rewrite failed, in order: none when every command
\* and every rewrite succeeded.
C21_SecondPlanningSelectsFailures ==
  DirectRunDone =>
    \A f \in DOMAIN batsCommands :
      LET again == processJunitFile(Content(files, f))
      IN  /\ again.err = NoErr
          /\ again.testcases = NotPassed(f, 1)

\* the report after one entry given what the entry returned: untouched when
\* bats failed, else what updateTestFile makes of it for that duration and
\* that fault of the file system
ReplayEntry(content, name, o) ==
  IF o.err = "exit status 1" THEN [content |-> content, err |-> o.err]
  ELSE IF o.err = NoErr
  THEN updateTestFile(content, name,
                      CHOOSE rt \in 0..MaxRunTime : FormatSeconds(rt) = o.time, "ok")
  ELSE IF o.err = "Failed to open junit file for writing"
  THEN updateTestFile(content, name, 0, "create_fail")
  ELSE IF o.err = "Failed to write junit file"
  THEN updateTestFile(content, name, 0, "write_fail")
  ELSE updateTestFile(content, name, 0, "ok")

RECURSIVE Replay(_, _, _)
\* the entries k..Len of report f applied in their declared order to content,
\* each with what it returned in the run; agrees: each returned that again
Replay(f, k, content) ==
  IF k > Len(batsCommands[f]) THEN [content |-> content, agrees |-> TRUE]
  ELSE LET o    == applied[<<f, k>>][1]
           step == ReplayEntry(content, batsCommands[f][k][1], o)
           rest == Replay(f, k + 1, step.content)
       IN  [content |-> rest.content, agrees |-> rest.agrees /\ step.err = o.err]

ErrorTexts ==
  {"exit status 1", "Failed to read junit file", "Failed to open junit file for writing",
   "Failed to write junit file"}

\* C22: the outcome of a direct-mode run is a function of the directory, the
\* plan and what each entry returned, whatever the order in which the reports
\* were visited: every report ends as its own entries make it, applied in their
\* declared order to its first content; every other file is untouched; the
\* errors recorded are the errors the entries returned, each as many times; the
\* exit status is 1 iff an entry returned an error.  And within a report an
\* entry is run only after all the entries before it and before all after it.
C22_OrderOfReportsIsImmaterial ==
  /\ []((DirectRunDone) =>
          /\ \A f \in DOMAIN batsCommands :
               LET r == Replay(f, 1, Content(files0, f))
               IN  r.agrees /\ Content(files, f) = r.content
          /\ \A i \in DOMAIN files :
               files[i].name \notin DOMAIN batsCommands => files[i] = files0[i]
          /\ \A s \in ErrorTexts :
               Cardinality({i \in DOMAIN result : result[i] = s}) =
               Cardinality({e \in DOMAIN applied : applied[e][1].err = s})
          /\ \A i \in DOMAIN result : result[i] \in ErrorTexts
          /\ exitCode = IF \E e \in DOMAIN applied : applied[e][1].err # NoErr
                        THEN 1 ELSE 0)
  /\ [][\A e \in DOMAIN applied :
          (e \in DOMAIN applied' /\ applied'[e] # applied[e]) =>
            /\ \A j \in 1..(e[2] - 1) : Len(applied[<<e[1], j>>]) = 1
            /\ \A j \in (e[2] + 1)..Len(batsCommands[e[1]]) : applied[<<e[1], j>>] = <<>>]_vars

\* a direct-mode run over two reports has ended: the second report was visited
\* first (its rewrite error is recorded before the command error of the first
\* report), and both reports have the content their own entries give them
C22_Witness ==
  /\ DirectRunDone
  /\ validFiles = <<ReportName(1), ReportName(2)>>
  /\ Len(batsCommands[ReportName(1)]) = 1 /\ Len(batsCommands[ReportName(2)]) = 1
  /\ applied[<<ReportName(1), 1>>] = <<Returned("exit status 1", 0)>>
  /\ applied[<<ReportName(2), 1>>] = <<Returned("Failed to write junit file", 0)>>
  /\ result = <<"Failed to write junit file", "exit status 1">>
  /\ Content(files, ReportName(1)) = Content(files0, ReportName(1))
  /\ Content(files, ReportName(2)) = Malformed
  /\ exitCode = 1

====
